---- MODULE Spec2Model ----
(***************************************************************************)
(* The trading platform's service worker (tier caches, fetch strategies,   *)
(* lifecycle, deferred-action replay) as a state machine.                  *)
(*                                                                         *)
(* A URL path is a sequence of tokens whose concatenation is the path      *)
(* ("/static/js/bundle.js" is <<"/","static","/","js","/","bundle",".",    *)
(* "js">>), so that the prefix and extension tests of the classifier are   *)
(* computed on the path and not looked up.                                 *)
(***************************************************************************)
EXTENDS Integers, Sequences, FiniteSets, TLC

\* ----------------------------------------------------------------- bounds
\* Fetch events dispatched to the worker in one behaviour.
MaxFetch == 2
\* Distinct bodies the origin server may answer with (content versions).
MaxVer == 2
\* Message events handled in one behaviour.
MaxMsg == 1
\* Deferred actions in the durable queue when the first replay run starts.
MaxQueue == 3
\* Sync and periodicsync events dispatched in one behaviour.
MaxRuns == 2
\* Requests posted to the analytics worker in one behaviour.
MaxRequests == 2

\* ------------------------------------------------------ tier registry
STATIC_CACHE == "static-v1"
API_CACHE == "api-v1"
DYNAMIC_CACHE == "dynamic-v1"
\* A tier left behind by an earlier version of the worker.
LegacyCache == "legacy-v0"

Registry == {STATIC_CACHE, API_CACHE, DYNAMIC_CACHE}
TierNames == Registry \cup {LegacyCache}

\* ------------------------------------------------------------- paths
PathRoot == <<"/">>
PathIndex == <<"/", "index", ".", "html">>
PathBundle == <<"/", "static", "/", "js", "/", "bundle", ".", "js">>
PathMainCss == <<"/", "static", "/", "css", "/", "main", ".", "css">>
PathManifest == <<"/", "manifest", ".", "json">>
PathFavicon == <<"/", "favicon", ".", "ico">>
PathMarketStatus == <<"/", "api", "/", "stocks", "/", "market-status">>
PathPortfolio == <<"/", "api", "/", "portfolio">>
PathApiChartJs == <<"/", "api", "/", "chart", ".", "js">>
PathOrders == <<"/", "api", "/", "orders">>

STATIC_ASSETS ==
  << PathRoot, PathIndex, PathBundle, PathMainCss, PathManifest, PathFavicon >>

CRITICAL_APIS ==
  << PathMarketStatus,
     <<"/", "api", "/", "stocks", "/", "market-overview">>,
     <<"/", "api", "/", "stocks", "/", "top-gainers">>,
     <<"/", "api", "/", "stocks", "/", "top-losers">>,
     <<"/", "api", "/", "stocks", "/", "market-index">> >>

StaticExtensions ==
  {"js", "css", "png", "jpg", "jpeg", "gif", "svg", "ico",
   "woff", "woff2", "ttf", "eot"}

ApiPrefix == <<"/", "api", "/">>

Range(s) == {s[k] : k \in 1..Len(s)}

\* The URLs the page requests, and every URL a tier may hold an entry for.
PageUrls == {PathIndex, PathMainCss, PathMarketStatus, PathPortfolio, PathApiChartJs}
AllUrls == PageUrls \cup Range(STATIC_ASSETS) \cup {PathOrders}

\* String.prototype.startsWith on paths.
StartsWith(s, prefix) ==
  /\ Len(prefix) <= Len(s)
  /\ SubSeq(s, 1, Len(prefix)) = prefix

\* --------------------------------------------------------- responses
\* A response is [status, contentType, body]; the three values below stand for
\* "no response": JavaScript's undefined (also: no entry in a tier), a
\* rejected promise, and a promise that is still pending.
Undefined == [status |-> 0, contentType |-> "", body |-> "undefined"]
Rejected == [status |-> 0, contentType |-> "", body |-> "rejected"]
Pending == [status |-> 0, contentType |-> "", body |-> "pending"]

BodyOfVersion == <<"content-v1", "content-v2", "content-v3", "content-v4">>

\* What the origin server answers for a request: a document of some version,
\* with a success or an error status.
OriginResponse(status, ver) ==
  [status |-> status, contentType |-> "origin", body |-> BodyOfVersion[ver]]

\* fetch() rejects (no connectivity).
NetworkError == [status |-> 0, contentType |-> "", body |-> "network-error"]

NetOutcomes ==
  {NetworkError}
    \cup {OriginResponse(200, v) : v \in 1..MaxVer}
    \cup {OriginResponse(404, 1)}

\* Response.ok
IsOk(response) == response.status >= 200 /\ response.status <= 299

OfflineText ==
  [status |-> 503, contentType |-> "text/plain",
   body |-> "Offline - Resource not available"]

\* JSON.stringify({success: false, message: ..., offline: true})
OfflineJsonBody ==
  "{\"success\":false,\"message\":\"Offline - Data not available\",\"offline\":true}"

OfflineJson ==
  [status |-> 503, contentType |-> "application/json", body |-> OfflineJsonBody]

\* ---------------------------------------------------------- requests
AcceptHtml == <<"text/html", "application/xhtml+xml">>
AcceptJson == <<"application/json">>
\* headers.get('accept') of a request that carries no accept header.
NullHeader == <<"null">>

\* The requests the page issues: a navigation and two other requests for the
\* shell document (with an HTML accept header, a non-HTML one, none), a
\* stylesheet requested with an HTML accept header, a critical and an ordinary
\* API call (one without accept header), a script under the API namespace, and
\* a mutating request.
Requests ==
  { [method |-> "GET", url |-> PathIndex, accept |-> AcceptHtml],
    [method |-> "GET", url |-> PathIndex, accept |-> AcceptJson],
    [method |-> "GET", url |-> PathIndex, accept |-> NullHeader],
    [method |-> "GET", url |-> PathMainCss, accept |-> AcceptHtml],
    [method |-> "GET", url |-> PathMarketStatus, accept |-> AcceptJson],
    [method |-> "GET", url |-> PathPortfolio, accept |-> NullHeader],
    [method |-> "GET", url |-> PathApiChartJs, accept |-> AcceptJson],
    [method |-> "POST", url |-> PathOrders, accept |-> AcceptJson] }

NoRequest == [method |-> "", url |-> <<>>, accept |-> NullHeader]

VARIABLES
  phase,           \* "parsed", "installed", "activating", "activated", "redundant"
  installPc,       \* the install chain: "idle", "open", "addAll", "skipWaiting", "done"
  installPromise,  \* the promise install gave waitUntil: "none", "resolved", "rejected"
  manifestFailed,  \* whether an entry of the install manifest failed to fetch
  skipWaiting,     \* whether self.skipWaiting() has been called
  cacheNames,      \* caches.keys(): the tier names present, in creation order
  store,           \* store[tier][url]: the snapshot held, or Undefined
  actPc,           \* the activate chain: "idle", "keys", "deleting", "claim", "done"
  actStart,        \* the tier names activation found present
  actDeleting,     \* caches.delete calls of the activation still in flight
  claimed,         \* whether clients.claim() has been called
  nFetch,          \* fetch events dispatched so far
  ev,              \* ev[i]: the handling of the i-th fetch event
  nMsg,            \* message events dispatched so far
  msgs,            \* msgs[m]: the handling of the m-th message event
  queue,           \* the durable queue of deferred actions, oldest first
  nSync,           \* sync and periodicsync events dispatched so far
  runs,            \* runs[r]: the handling of the r-th sync or periodicsync event
  sent,            \* the requests posted to the analytics worker, in order
  nHandled,        \* how many of them its message listener has handled
  outbox,          \* the messages the analytics worker has posted, in order
  latest           \* latest[url]: the snapshot most recently stored for the url

vars ==
  << phase, installPc, installPromise, manifestFailed, skipWaiting, cacheNames,
     store, actPc, actStart, actDeleting, claimed, nFetch, ev, nMsg, msgs, queue, nSync,
     runs, sent, nHandled, outbox, latest >>

lifecycleVars == << phase, installPc, installPromise, manifestFailed, skipWaiting >>
msgVars == << nMsg, msgs >>
activateVars == << actPc, actStart, actDeleting, claimed >>
fetchVars == << nFetch, ev >>
syncVars == << queue, nSync, runs >>
tierVars == << cacheNames, store, latest >>
analyticsVars == << sent, nHandled, outbox >>

\* ------------------------------------------------------ Cache Storage
EmptyTier == [u \in AllUrls |-> Undefined]

NamesOf(names) == Range(names)

\* caches.open(name): the tier is created when it is not present.
CachesOpen(names, name) ==
  IF name \in NamesOf(names) THEN names ELSE Append(names, name)

\* caches.match(request): the first tier, in creation order, holding an entry.
CachesMatch(names, st, url) ==
  LET hits == {k \in 1..Len(names) : st[names[k]][url] # Undefined}
  IN  IF hits = {} THEN Undefined
      ELSE st[names[CHOOSE k \in hits : \A j \in hits : k <= j]][url]

\* cache.match(request) on one tier.
CacheMatch(st, tier, url) == st[tier][url]

\* Variant of CachePut: an entry already present is kept (add-if-absent).
CachePut_KeepsOld(st, tier, url, response) ==
  IF st[tier][url] # Undefined THEN st
  ELSE [st EXCEPT ![tier] = [@ EXCEPT ![url] = response]]

\* cache.put(request, response): the entry is replaced.
CachePut(st, tier, url, response) ==
  [st EXCEPT ![tier] = [@ EXCEPT ![url] = response]]

\* cache.addAll(urls) once every response has arrived.
CacheAddAll(st, tier, urls, response) ==
  [st EXCEPT ![tier] = [u \in AllUrls |-> IF u \in urls THEN response ELSE @[u]]]

\* caches.delete(name)
CachesDelete(names, name) == SelectSeq(names, LAMBDA n : n # name)


\* ---------------------------------------------------------- classifier
\* pathname.match(/\.(js|css|...)$/): the path ends in "." and an extension.
isStaticAsset(request) ==
  LET p == request.url
  IN  /\ Len(p) >= 2
      /\ p[Len(p) - 1] = "."
      /\ p[Len(p)] \in StaticExtensions

isAPIRequest(request) == StartsWith(request.url, ApiPrefix)

\* request.headers.get('accept').includes('text/html') throws a TypeError when
\* the request carries no accept header (get returns null).
isHTMLRequestThrows(request) == request.accept = NullHeader

isHTMLRequest(request) == "text/html" \in Range(request.accept)

isCriticalAPI(request) ==
  \E k \in 1..Len(CRITICAL_APIS) : StartsWith(request.url, CRITICAL_APIS[k])

CACHE_FIRST == "cache-first"
NETWORK_FIRST == "network-first"
STALE_WHILE_REVALIDATE == "stale-while-revalidate"

\* Variant of FetchDecision: the method is not looked at.
FetchDecision_AnyMethod(request) ==
  IF isStaticAsset(request) THEN CACHE_FIRST
  ELSE IF isAPIRequest(request) THEN NETWORK_FIRST
  ELSE IF isHTMLRequestThrows(request) THEN "threw"
  ELSE IF isHTMLRequest(request) THEN STALE_WHILE_REVALIDATE
  ELSE NETWORK_FIRST

\* What the fetch listener does with a request: "passthrough" (it returns
\* without respondWith), "threw" (it throws before respondWith), or the
\* strategy whose promise it hands to respondWith.
FetchDecision(request) ==
  IF request.method # "GET" THEN "passthrough"
  ELSE IF isStaticAsset(request) THEN CACHE_FIRST
  ELSE IF isAPIRequest(request) THEN NETWORK_FIRST
  ELSE IF isHTMLRequestThrows(request) THEN "threw"
  ELSE IF isHTMLRequest(request) THEN STALE_WHILE_REVALIDATE
  ELSE NETWORK_FIRST

Strategies == {CACHE_FIRST, NETWORK_FIRST, STALE_WHILE_REVALIDATE}

\* Variant of TierOf: every strategy writes to the dynamic tier.
TierOf_AllDynamic(strategy) == DYNAMIC_CACHE

\* The tier a strategy writes to.
TierOf(strategy) ==
  CASE strategy = CACHE_FIRST -> STATIC_CACHE
    [] strategy = NETWORK_FIRST -> API_CACHE
    [] OTHER -> DYNAMIC_CACHE

\* ------------------------------------------------------------ lifecycle
IdleEvent ==
  [req |-> NoRequest, decision |-> "none", respondWith |-> 0, pc |-> "idle",
   cached |-> Undefined, netCalls |-> 0, net |-> Pending, result |-> Pending,
   open |-> "none", put |-> "none"]

IdleMessage == [type |-> "", urls |-> <<>>, pc |-> "idle", promise |-> "none"]

\* The tier names a worker may find present when it is first run: none, or
\* what earlier versions of the worker left.
InitCacheNames ==
  { <<>>,
    <<LegacyCache>>,
    <<LegacyCache, STATIC_CACHE, API_CACHE, DYNAMIC_CACHE>> }

IdleRun ==
  [pc |-> "idle", kind |-> "", tag |-> "", pending |-> <<>>, idx |-> 0,
   log |-> <<>>, promise |-> "none"]

\* The worker script has been evaluated; nothing is queued for replay.
Init ==
  /\ queue = <<>>
  /\ nSync = 0
  /\ runs = [r \in 1..MaxRuns |-> IdleRun]
  /\ phase = "parsed"
  /\ installPc = "idle"
  /\ installPromise = "none"
  /\ manifestFailed = FALSE
  /\ skipWaiting = FALSE
  /\ cacheNames \in InitCacheNames
  /\ store = [t \in TierNames |-> EmptyTier]
  /\ latest = EmptyTier
  /\ actPc = "idle"
  /\ actStart = {}
  /\ actDeleting = {}
  /\ claimed = FALSE
  /\ nFetch = 0
  /\ ev = [i \in 1..MaxFetch |-> IdleEvent]
  /\ nMsg = 0
  /\ msgs = [m \in 1..MaxMsg |-> IdleMessage]
  /\ sent = <<>>
  /\ nHandled = 0
  /\ outbox = <<>>

\* How the promise given to waitUntil by the install listener settles: the
\* chain ends in .catch(), whose handler returns normally.
InstallSettles(populated) == "resolved"

\* The install listener: caches.open(STATIC_CACHE) is called and the chain
\* built on it is handed to waitUntil; the listener returns.
Install ==
  /\ phase = "parsed"
  /\ installPc = "idle"
  /\ installPc' = "open"
  /\ UNCHANGED << phase, installPromise, manifestFailed, skipWaiting, tierVars,
                  activateVars, fetchVars, msgVars, syncVars, analyticsVars >>

\* caches.open of the install settles: the static tier exists and addAll
\* starts the fetches of the manifest; a rejection goes to the catch handler.
InstallOpenDone(openOk) ==
  /\ installPc = "open"
  /\ installPc' = IF openOk THEN "addAll" ELSE "done"
  /\ cacheNames' = IF openOk THEN CachesOpen(cacheNames, STATIC_CACHE)
                   ELSE cacheNames
  /\ phase' = IF openOk THEN phase
              ELSE IF InstallSettles(FALSE) = "resolved" THEN "installed"
              ELSE "redundant"
  /\ installPromise' = IF openOk THEN installPromise ELSE InstallSettles(FALSE)
  /\ UNCHANGED << manifestFailed, skipWaiting, store, latest, activateVars,
                  fetchVars, msgVars, syncVars, analyticsVars >>

\* addAll of the install settles (all entries or none); failed is the manifest
\* entry whose fetch fails (0: none). When it resolved the next callback calls
\* self.skipWaiting() and the chain waits for its promise; when it rejected
\* the catch handler runs and the chain settles in the same turn.
InstallAddAllDone(failed, ver) ==
  LET populated == failed = 0
  IN  /\ installPc = "addAll"
      /\ installPc' = IF populated THEN "skipWaiting" ELSE "done"
      /\ phase' = IF populated THEN phase
                  ELSE IF InstallSettles(FALSE) = "resolved" THEN "installed"
                  ELSE "redundant"
      /\ store' = IF populated
                  THEN CacheAddAll(store, STATIC_CACHE, Range(STATIC_ASSETS),
                                   OriginResponse(200, ver))
                  ELSE store
      /\ latest' = IF populated
                   THEN [u \in AllUrls |-> IF u \in Range(STATIC_ASSETS)
                                           THEN OriginResponse(200, ver)
                                           ELSE latest[u]]
                   ELSE latest
      /\ manifestFailed' = (failed # 0)
      /\ skipWaiting' = (skipWaiting \/ populated)
      /\ installPromise' = IF populated THEN installPromise
                           ELSE InstallSettles(FALSE)
      /\ UNCHANGED << cacheNames, activateVars, fetchVars, msgVars, syncVars,
                      analyticsVars >>

\* The promise of self.skipWaiting() resolves: the promise given to waitUntil
\* settles and the worker is installed.
InstallSkipWaitingDone ==
  /\ installPc = "skipWaiting"
  /\ installPc' = "done"
  /\ installPromise' = InstallSettles(TRUE)
  /\ phase' = IF InstallSettles(TRUE) = "resolved" THEN "installed" ELSE "redundant"
  /\ UNCHANGED << manifestFailed, skipWaiting, tierVars, activateVars, fetchVars,
                  msgVars, syncVars, analyticsVars >>

\* Variant of IsStaleCache: the dynamic tier is not exempted.
IsStaleCache_DropsDynamic(cacheName) ==
  /\ cacheName # STATIC_CACHE
  /\ cacheName # API_CACHE

\* The test of the activate listener: the name is none of the registry's.
IsStaleCache(cacheName) ==
  /\ cacheName # STATIC_CACHE
  /\ cacheName # API_CACHE
  /\ cacheName # DYNAMIC_CACHE

\* Variant of ClaimCalled: clients.claim() does not wait for the deletions.
ClaimCalled_Early(deleting) == TRUE

\* Promise.all over the caches.delete promises resolves, and the callback
\* that calls self.clients.claim() runs, in the turn in which no deletion is
\* left in flight.
ClaimCalled(deleting) == deleting = {}

\* The activate listener: caches.keys() is called and the chain built on it is
\* handed to waitUntil; the listener returns.
ActivateStart ==
  /\ phase = "installed"
  /\ installPromise = "resolved"
  /\ phase' = "activating"
  /\ actPc' = "keys"
  /\ UNCHANGED << installPc, installPromise, manifestFailed, skipWaiting, tierVars,
                  actStart, actDeleting, claimed, fetchVars, msgVars, syncVars,
                  analyticsVars >>

\* caches.keys() resolves: a caches.delete is started for every stale name;
\* when there is none Promise.all resolves at once and clients.claim() is
\* called in the same turn.
ActivateKeysDone ==
  LET stale == {n \in NamesOf(cacheNames) : IsStaleCache(n)}
  IN  /\ actPc = "keys"
      /\ actStart' = NamesOf(cacheNames)
      /\ actDeleting' = stale
      /\ claimed' = ClaimCalled(stale)
      /\ actPc' = IF ClaimCalled(stale) THEN "claim" ELSE "deleting"
      /\ UNCHANGED << lifecycleVars, tierVars, fetchVars, msgVars, syncVars,
                      analyticsVars >>

\* One caches.delete of the activation completes; when it was the last one
\* in flight Promise.all resolves and clients.claim() is called in the same
\* turn.
ActivateDeleteDone(n) ==
  /\ actPc = "deleting"
  /\ n \in actDeleting
  /\ cacheNames' = CachesDelete(cacheNames, n)
  /\ store' = [store EXCEPT ![n] = EmptyTier]
  /\ latest' = latest
  /\ actDeleting' = actDeleting \ {n}
  /\ claimed' = ClaimCalled(actDeleting \ {n})
  /\ actPc' = IF ClaimCalled(actDeleting \ {n}) THEN "claim" ELSE "deleting"
  /\ UNCHANGED << lifecycleVars, actStart, fetchVars, msgVars, syncVars,
                  analyticsVars >>

\* The promise of clients.claim() resolves: the promise given to waitUntil
\* settles and the worker is activated.
ActivateClaim ==
  /\ actPc = "claim"
  /\ actPc' = "done"
  /\ phase' = "activated"
  /\ UNCHANGED << installPc, installPromise, manifestFailed, skipWaiting, tierVars,
                  actStart, actDeleting, claimed, fetchVars, msgVars, syncVars,
                  analyticsVars >>

\* ---------------------------------------------------------------- fetch
\* The fetch listener and the synchronous start of the strategy it chose, up
\* to the strategy's first await: cacheFirst has called caches.match,
\* networkFirst has called fetch, staleWhileRevalidate has called caches.open.
StartEvent(request) ==
  LET d == FetchDecision(request)
      base == [IdleEvent EXCEPT !.req = request, !.decision = d]
  IN  CASE d = "passthrough" \/ d = "threw" ->
             [base EXCEPT !.pc = "done"]
        [] d = CACHE_FIRST ->
             [base EXCEPT !.respondWith = 1, !.pc = "match"]
        [] d = NETWORK_FIRST ->
             [base EXCEPT !.respondWith = 1, !.pc = "net", !.netCalls = 1]
        [] OTHER ->
             [base EXCEPT !.respondWith = 1, !.pc = "open"]

\* A fetch event is dispatched to the active worker and the listener returns.
FetchEvent(request) ==
  /\ phase = "activated"
  /\ nFetch < MaxFetch
  /\ nFetch' = nFetch + 1
  /\ ev' = [ev EXCEPT ![nFetch + 1] = StartEvent(request)]
  /\ UNCHANGED << lifecycleVars, tierVars, activateVars, msgVars, syncVars,
                  analyticsVars >>

\* cacheFirst after its caches.match resolved with c: a hit is returned, a
\* miss calls fetch.
cacheFirstMatched(e, c) ==
  IF c # Undefined
  THEN [e EXCEPT !.cached = c, !.result = c, !.pc = "done"]
  ELSE [e EXCEPT !.pc = "net", !.netCalls = 1]

\* Variant of cacheFirstReply: a failed fetch rejects the promise (no catch).
cacheFirstReply_Propagates(e, outcome) ==
  IF outcome = NetworkError THEN [e EXCEPT !.result = Rejected, !.pc = "done"]
  ELSE IF ~IsOk(outcome) THEN [e EXCEPT !.result = outcome, !.pc = "done"]
  ELSE [e EXCEPT !.pc = "open"]

\* Variant of cacheFirstReply: the response is returned without being stored.
cacheFirstReply_NoPut(e, outcome) ==
  IF outcome = NetworkError THEN [e EXCEPT !.result = OfflineText, !.pc = "done"]
  ELSE [e EXCEPT !.result = outcome, !.pc = "done"]

\* cacheFirst after its fetch settled: a rejection is caught, a response that
\* is not ok is returned, for an ok response caches.open is called.
cacheFirstReply(e, outcome) ==
  IF outcome = NetworkError THEN [e EXCEPT !.result = OfflineText, !.pc = "done"]
  ELSE IF ~IsOk(outcome) THEN [e EXCEPT !.result = outcome, !.pc = "done"]
  ELSE [e EXCEPT !.pc = "open"]

\* cacheFirst after its caches.open settled: the put is started (not awaited)
\* and the response returned; a rejection is caught.
cacheFirstOpened(e, openOk) ==
  IF openOk
  THEN [e EXCEPT !.open = "ok", !.result = e.net, !.put = "pending", !.pc = "done"]
  ELSE [e EXCEPT !.open = "failed", !.result = OfflineText, !.pc = "done"]

\* Variant of networkFirstFallback: every API path gets the JSON payload.
networkFirstFallback_AnyApi(e, names, st) ==
  LET c == CachesMatch(names, st, e.req.url)
  IN  IF c # Undefined THEN [e EXCEPT !.cached = c, !.result = c, !.pc = "done"]
      ELSE IF isAPIRequest(e.req) THEN [e EXCEPT !.result = OfflineJson, !.pc = "done"]
      ELSE [e EXCEPT !.result = OfflineText, !.pc = "done"]

\* The catch block of networkFirst once its caches.match resolved.
networkFirstFallback(e, names, st) ==
  LET c == CachesMatch(names, st, e.req.url)
  IN  IF c # Undefined THEN [e EXCEPT !.cached = c, !.result = c, !.pc = "done"]
      ELSE IF isCriticalAPI(e.req) THEN [e EXCEPT !.result = OfflineJson, !.pc = "done"]
      ELSE [e EXCEPT !.result = OfflineText, !.pc = "done"]

\* Variant of networkFirstReply: the response is stored whatever its status.
networkFirstReply_StoresAny(e, outcome) ==
  IF outcome = NetworkError THEN [e EXCEPT !.pc = "match"]
  ELSE [e EXCEPT !.pc = "open"]

\* networkFirst after its fetch settled: a rejection enters the catch block,
\* which calls caches.match; a response that is not ok is returned; for an ok
\* response caches.open is called.
networkFirstReply(e, outcome) ==
  IF outcome = NetworkError THEN [e EXCEPT !.pc = "match"]
  ELSE IF ~IsOk(outcome) THEN [e EXCEPT !.result = outcome, !.pc = "done"]
  ELSE [e EXCEPT !.pc = "open"]

\* networkFirst after its caches.open settled: the put is started (not
\* awaited) and the response returned; a rejection enters the catch block.
networkFirstOpened(e, openOk) ==
  IF openOk
  THEN [e EXCEPT !.open = "ok", !.result = e.net, !.put = "pending", !.pc = "done"]
  ELSE [e EXCEPT !.open = "failed", !.pc = "match"]

\* Variant of swrResult: the caller waits for the network result.
swrResult_PrefersNetwork(e, settled) ==
  IF settled # Undefined THEN settled ELSE e.cached

\* What the caller of staleWhileRevalidate receives: cachedResponse || fetchPromise.
swrResult(e, settled) == IF e.cached # Undefined THEN e.cached ELSE settled

\* staleWhileRevalidate after its caches.open settled: cache.match is called;
\* a rejection rejects the strategy's promise (there is no try).
staleWhileRevalidateOpened(e, openOk) ==
  IF openOk THEN [e EXCEPT !.open = "ok", !.pc = "match"]
  ELSE [e EXCEPT !.open = "failed", !.result = Rejected, !.pc = "done"]

\* staleWhileRevalidate after its cache.match resolved with c: fetch is called
\* and cachedResponse || fetchPromise returned.
staleWhileRevalidateMatched(e, c) ==
  LET e2 == [e EXCEPT !.cached = c, !.netCalls = 1, !.pc = "net"]
  IN  [e2 EXCEPT !.result = swrResult(e2, Pending)]

\* Variant of staleWhileRevalidateReply: a failed fetch with no snapshot is
\* answered with the synthesized 503 response.
staleWhileRevalidateReply_Synthesizes(e, outcome) ==
  IF outcome = NetworkError
  THEN [e EXCEPT !.result = IF e.cached # Undefined THEN e.cached ELSE OfflineText,
                 !.pc = "done"]
  ELSE IF IsOk(outcome)
       THEN [e EXCEPT !.result = swrResult(e, outcome), !.put = "pending",
                      !.pc = "done"]
       ELSE [e EXCEPT !.result = swrResult(e, outcome), !.pc = "done"]

\* staleWhileRevalidate's fetchPromise settles: the put of an ok response is
\* started in the same callback.
staleWhileRevalidateReply(e, outcome) ==
  IF outcome = NetworkError
  THEN [e EXCEPT !.result = swrResult(e, e.cached), !.pc = "done"]
  ELSE IF IsOk(outcome)
       THEN [e EXCEPT !.result = swrResult(e, outcome), !.put = "pending",
                      !.pc = "done"]
       ELSE [e EXCEPT !.result = swrResult(e, outcome), !.pc = "done"]

\* The lookup event i awaits resolves: caches.match over all tiers for
\* cacheFirst and for the catch block of networkFirst, cache.match on the
\* dynamic tier for staleWhileRevalidate.
MatchDone(i) ==
  LET e == ev[i]
      d == e.decision
      e2 == CASE d = CACHE_FIRST ->
                   cacheFirstMatched(e, CachesMatch(cacheNames, store, e.req.url))
              [] d = NETWORK_FIRST -> networkFirstFallback(e, cacheNames, store)
              [] OTHER ->
                   staleWhileRevalidateMatched(
                     e, CacheMatch(store, DYNAMIC_CACHE, e.req.url))
  IN  /\ e.pc = "match"
      /\ ev' = [ev EXCEPT ![i] = e2]
      /\ UNCHANGED << lifecycleVars, tierVars, activateVars, nFetch, msgVars,
                      syncVars, analyticsVars >>

\* The network answers the fetch of event i (or fails), and the strategy runs
\* on to its next await or to its return.
NetworkReply(i, outcome) ==
  LET e == [ev[i] EXCEPT !.net = outcome]
      d == ev[i].decision
      e2 == CASE d = CACHE_FIRST -> cacheFirstReply(e, outcome)
              [] d = NETWORK_FIRST -> networkFirstReply(e, outcome)
              [] OTHER -> staleWhileRevalidateReply(e, outcome)
  IN  /\ ev[i].pc = "net"
      /\ ev' = [ev EXCEPT ![i] = e2]
      /\ UNCHANGED << lifecycleVars, tierVars, activateVars, nFetch, msgVars,
                      syncVars, analyticsVars >>

\* The caches.open event i awaits settles: the strategy's tier is created
\* when it is not present.
OpenDone(i, openOk) ==
  LET e == ev[i]
      d == e.decision
      e2 == CASE d = CACHE_FIRST -> cacheFirstOpened(e, openOk)
              [] d = NETWORK_FIRST -> networkFirstOpened(e, openOk)
              [] OTHER -> staleWhileRevalidateOpened(e, openOk)
  IN  /\ e.pc = "open"
      /\ ev' = [ev EXCEPT ![i] = e2]
      /\ cacheNames' = IF openOk THEN CachesOpen(cacheNames, TierOf(d))
                       ELSE cacheNames
      /\ UNCHANGED << lifecycleVars, store, latest, activateVars, nFetch, msgVars,
                      syncVars, analyticsVars >>

\* The cache.put started by event i completes.
PutLands(i) ==
  /\ ev[i].put = "pending"
  /\ store' = CachePut(store, TierOf(ev[i].decision), ev[i].req.url, ev[i].net)
  /\ latest' = [latest EXCEPT ![ev[i].req.url] = ev[i].net]
  /\ ev' = [ev EXCEPT ![i].put = "landed"]
  /\ UNCHANGED << lifecycleVars, cacheNames, activateVars, nFetch, msgVars,
                  syncVars, analyticsVars >>

\* -------------------------------------------------------------- messages
MessageTypes == {"SKIP_WAITING", "CACHE_URLS", "PING"}

\* The url lists a page sends with CACHE_URLS.
CacheUrlLists == { <<PathMarketStatus, PathPortfolio>> }

\* The message listener: SKIP_WAITING calls skipWaiting; CACHE_URLS calls
\* caches.open(API_CACHE) and hands the chain built on it to waitUntil; any
\* other type does nothing. The listener tests nothing but the type: a page
\* can post to the worker in any phase of its life.
Message(type, urls) ==
  /\ nMsg < MaxMsg
  /\ nMsg' = nMsg + 1
  /\ skipWaiting' = (skipWaiting \/ type = "SKIP_WAITING")
  /\ msgs' = [msgs EXCEPT ![nMsg + 1] =
                IF type = "CACHE_URLS"
                THEN [type |-> type, urls |-> urls, pc |-> "open",
                      promise |-> "pending"]
                ELSE [type |-> type, urls |-> <<>>, pc |-> "done",
                      promise |-> "none"]]
  /\ UNCHANGED << phase, installPc, installPromise, manifestFailed, tierVars,
                  activateVars, fetchVars, syncVars, analyticsVars >>

\* caches.open of a CACHE_URLS message settles: the API tier exists and
\* addAll starts the fetches of the urls; a rejection rejects the chain.
MessageOpenDone(m, openOk) ==
  /\ msgs[m].pc = "open"
  /\ msgs' = [msgs EXCEPT ![m] =
                IF openOk THEN [@ EXCEPT !.pc = "addAll"]
                ELSE [@ EXCEPT !.pc = "done", !.promise = "rejected"]]
  /\ cacheNames' = IF openOk THEN CachesOpen(cacheNames, API_CACHE)
                   ELSE cacheNames
  /\ UNCHANGED << lifecycleVars, store, latest, activateVars, fetchVars, nMsg,
                  syncVars, analyticsVars >>

\* Variant of MessageAddAllDone: the urls are stored in the dynamic tier.
MessageAddAllDone_IntoDynamic(m, allOk, ver) ==
  /\ msgs[m].pc = "addAll"
  /\ msgs' = [msgs EXCEPT ![m] =
                [@ EXCEPT !.pc = "done",
                          !.promise = IF allOk THEN "resolved" ELSE "rejected"]]
  /\ store' = IF allOk
              THEN CacheAddAll(store, DYNAMIC_CACHE, Range(msgs[m].urls),
                               OriginResponse(200, ver))
              ELSE store
  /\ latest' = IF allOk
               THEN [u \in AllUrls |-> IF u \in Range(msgs[m].urls)
                                       THEN OriginResponse(200, ver)
                                       ELSE latest[u]]
               ELSE latest
  /\ UNCHANGED << lifecycleVars, cacheNames, activateVars, fetchVars, nMsg,
                  syncVars, analyticsVars >>

\* addAll of a CACHE_URLS message settles: every url is stored in the API
\* tier when every fetch succeeded, none otherwise.
MessageAddAllDone(m, allOk, ver) ==
  /\ msgs[m].pc = "addAll"
  /\ msgs' = [msgs EXCEPT ![m] =
                [@ EXCEPT !.pc = "done",
                          !.promise = IF allOk THEN "resolved" ELSE "rejected"]]
  /\ store' = IF allOk
              THEN CacheAddAll(store, API_CACHE, Range(msgs[m].urls),
                               OriginResponse(200, ver))
              ELSE store
  /\ latest' = IF allOk
               THEN [u \in AllUrls |-> IF u \in Range(msgs[m].urls)
                                       THEN OriginResponse(200, ver)
                                       ELSE latest[u]]
               ELSE latest
  /\ UNCHANGED << lifecycleVars, cacheNames, activateVars, fetchVars, nMsg,
                  syncVars, analyticsVars >>

\* ------------------------------------------------ deferred-action replay
\* The record a page-side collaborator queues for a mutating request that
\* failed while offline.
DeferredAction(k) ==
  [id |-> k, url |-> PathOrders, method |-> "POST"]

QueueOf(n) == [k \in 1..n |-> DeferredAction(k)]

\* What the origin answers to a replayed action.
ReplayOutcomes ==
  {NetworkError, OriginResponse(200, 1), OriginResponse(500, 1)}

\* getPendingActions returns an empty array, whatever the durable queue q
\* holds (the queue is not read).
getPendingActions(q) == <<>>

\* removePendingAction logs the identifier; the durable queue q is left as
\* it is.
removePendingAction(q, actionId) == q

\* syncAction throws when its fetch rejects and when the response is not ok.
syncActionThrows(response) == response = NetworkError \/ ~IsOk(response)

\* The tags the sync and periodicsync listeners act on.
SyncTriggers(kind, tag) ==
  \/ kind = "sync" /\ tag = "background-sync"
  \/ kind = "periodicsync" /\ tag = "content-sync"

\* doBackgroundSync moves to the next action of its list, or completes.
NextAction(run) ==
  IF run.idx + 1 > Len(run.pending)
  THEN [run EXCEPT !.idx = run.idx + 1, !.pc = "done", !.promise = "resolved"]
  ELSE [run EXCEPT !.idx = run.idx + 1, !.pc = "replay"]

\* The inner catch of doBackgroundSync: the failure is logged, the loop goes on.
SyncFailed(run) == NextAction(run)

\* syncAction returned: removePendingAction is awaited next.
SyncSucceeded(run) == [run EXCEPT !.pc = "remove"]

\* doBackgroundSync up to its first syncAction, or to its return when the
\* list is empty (the promise of getPendingActions is already resolved: the
\* function runs on in the turn of the listener).
StartRun(kind, tag, q) ==
  NextAction([IdleRun EXCEPT !.kind = kind, !.tag = tag,
                             !.pending = getPendingActions(q)])

\* A sync or periodicsync event: a replay run starts when the tag is the
\* listener's, and nothing happens otherwise.
SyncEvent(kind, tag) ==
  /\ phase = "activated"
  /\ nSync < MaxRuns
  /\ nSync' = nSync + 1
  /\ runs' = [runs EXCEPT ![nSync + 1] =
                IF SyncTriggers(kind, tag) THEN StartRun(kind, tag, queue)
                ELSE [IdleRun EXCEPT !.pc = "ignored", !.kind = kind, !.tag = tag]]
  /\ UNCHANGED << lifecycleVars, tierVars, activateVars, fetchVars, msgVars, queue,
                  analyticsVars >>

\* The fetch of syncAction settles for the action run r is replaying.
ReplayReply(r, outcome) ==
  LET run == runs[r]
      logged == [run EXCEPT !.log =
                   Append(@, [id |-> run.pending[run.idx].id, outcome |-> outcome])]
  IN  /\ run.pc = "replay"
      /\ runs' = [runs EXCEPT ![r] = IF syncActionThrows(outcome)
                                     THEN SyncFailed(logged)
                                     ELSE SyncSucceeded(logged)]
      /\ UNCHANGED << lifecycleVars, tierVars, activateVars, fetchVars, msgVars,
                      queue, nSync, analyticsVars >>

\* removePendingAction completes for the action run r replayed.
RemoveDone(r) ==
  /\ runs[r].pc = "remove"
  /\ queue' = removePendingAction(queue, runs[r].pending[runs[r].idx].id)
  /\ runs' = [runs EXCEPT ![r] = NextAction(runs[r])]
  /\ UNCHANGED << lifecycleVars, tierVars, activateVars, fetchVars, msgVars, nSync,
                  analyticsVars >>

\* ------------------------------------------------------ analytics worker
\* The seven request types of the switch, and one outside it.
SupportedTypes ==
  {"CALCULATE_PORTFOLIO_VALUE", "PROCESS_MARKET_DATA",
   "CALCULATE_PERFORMANCE_METRICS", "PROCESS_CHART_DATA",
   "ANALYZE_STOCK_TRENDS", "CALCULATE_RISK_METRICS",
   "PROCESS_WATCHLIST_ANALYSIS"}

RequestTypes == SupportedTypes \cup {"REFRESH_QUOTES"}

\* A number that is undefined in JavaScript (a missing property).
Absent == -1

\* x || y on numbers: undefined and 0 are falsy.
Truthy(x) == x # Absent /\ x # 0

Symbols == {"X", "Y"}

\* The holding of the documented example, and one without a price of its own.
HoldingX == [symbol |-> "X", quantity |-> 10, averagePrice |-> 5, currentPrice |-> 7]
HoldingY == [symbol |-> "Y", quantity |-> 10, averagePrice |-> 0, currentPrice |-> Absent]

HoldingLists == {<<>>, <<HoldingX>>, <<HoldingX, HoldingY>>}

\* Price maps: no entry, an entry for X, a zero entry for X, an entry for Y.
NoPrices == [s \in Symbols |-> Absent]
PriceMaps ==
  {NoPrices, [NoPrices EXCEPT !["X"] = 9], [NoPrices EXCEPT !["X"] = 0],
   [NoPrices EXCEPT !["Y"] = 5]}

\* The data of a request: fields is the set of properties that are defined;
\* the values of the portfolio properties are carried; of the lists the other
\* routines iterate over (stocks, trades, rawData, watchlist) only whether
\* they are empty is carried, their elements and the objects the routines
\* read are well-formed when they are defined.
NoData ==
  [fields |-> {}, holdings |-> <<>>, currentPrices |-> NoPrices,
   initialInvestment |-> Absent, emptyList |-> FALSE]

\* The properties of data a routine dereferences (a TypeError is thrown when
\* one of them is undefined).
RequiredFields(type) ==
  CASE type = "CALCULATE_PORTFOLIO_VALUE" -> {"holdings", "currentPrices"}
    [] type = "PROCESS_MARKET_DATA" -> {"stocks"}
    [] type = "CALCULATE_PERFORMANCE_METRICS" -> {"trades", "portfolio"}
    [] type = "PROCESS_CHART_DATA" -> {"rawData"}
    [] type = "ANALYZE_STOCK_TRENDS" -> {"stocks"}
    [] type = "CALCULATE_RISK_METRICS" -> {"portfolio", "marketData"}
    [] type = "PROCESS_WATCHLIST_ANALYSIS" -> {"watchlist", "marketData"}
    [] OTHER -> {}

\* The data a page sends with a request of a type: nothing, everything the
\* routine reads, or everything but one property.
FieldChoices(type) ==
  {{}, RequiredFields(type)}
    \cup {RequiredFields(type) \ {f} : f \in RequiredFields(type)}

PortfolioData ==
  {[fields |-> F \cup I, holdings |-> IF "holdings" \in F THEN h ELSE <<>>,
    currentPrices |-> IF "currentPrices" \in F THEN m ELSE NoPrices,
    initialInvestment |-> IF I = {} THEN Absent ELSE 50,
    emptyList |-> FALSE] :
     F \in FieldChoices("CALCULATE_PORTFOLIO_VALUE"),
     I \in {{}, {"initialInvestment"}},
     h \in HoldingLists, m \in PriceMaps}

DataOf(type) ==
  IF type = "CALCULATE_PORTFOLIO_VALUE" THEN PortfolioData
  ELSE {[NoData EXCEPT !.fields = F, !.emptyList = empty] :
          F \in FieldChoices(type), empty \in BOOLEAN}

\* (part / whole) * 100; the values used keep the quotient exact.
PercentOf(part, whole) == (part * 100) \div whole

NoSummary ==
  [totalValue |-> 0, totalCost |-> 0, totalGainLoss |-> 0,
   totalGainLossPercent |-> 0, totalReturn |-> 0]

\* currentPrices[holding.symbol] || holding.currentPrice || 0
PriceOf(prices, holding) ==
  IF Truthy(prices[holding.symbol]) THEN prices[holding.symbol]
  ELSE IF Truthy(holding.currentPrice) THEN holding.currentPrice
  ELSE 0

RECURSIVE SumValue(_, _)
SumValue(holdings, prices) ==
  IF holdings = <<>> THEN 0
  ELSE PriceOf(prices, Head(holdings)) * Head(holdings).quantity
         + SumValue(Tail(holdings), prices)

RECURSIVE SumCost(_)
SumCost(holdings) ==
  IF holdings = <<>> THEN 0
  ELSE Head(holdings).averagePrice * Head(holdings).quantity
         + SumCost(Tail(holdings))

\* Whether calculatePortfolioValue throws: holdings.map on undefined, or the
\* price lookup of the first holding on an undefined price map.
calculatePortfolioValueThrows(data) ==
  \/ "holdings" \notin data.fields
  \/ data.holdings # <<>> /\ "currentPrices" \notin data.fields

\* The summary calculatePortfolioValue returns (totalGainLoss is accumulated
\* as the sum of the holdings' currentValue - costBasis).
calculatePortfolioValue(data) ==
  LET totalValue == SumValue(data.holdings, data.currentPrices)
      totalCost == SumCost(data.holdings)
      totalGainLoss == totalValue - totalCost
  IN  [totalValue |-> totalValue,
       totalCost |-> totalCost,
       totalGainLoss |-> totalGainLoss,
       totalGainLossPercent |->
         IF totalCost > 0 THEN PercentOf(totalGainLoss, totalCost) ELSE 0,
       totalReturn |->
         IF data.initialInvestment > 0
         THEN PercentOf(totalValue - data.initialInvestment, data.initialInvestment)
         ELSE 0]

\* Whether processWatchlistAnalysis throws: watchlist.map on undefined, or
\* marketData.find for the first item on an undefined marketData.
processWatchlistAnalysisThrows(data) ==
  \/ "watchlist" \notin data.fields
  \/ ~data.emptyList /\ "marketData" \notin data.fields

\* Whether the routine of a supported type throws on the data. The other five
\* routines dereference each of their properties whatever the list holds.
ComputationThrows(type, data) ==
  IF type = "CALCULATE_PORTFOLIO_VALUE" THEN calculatePortfolioValueThrows(data)
  ELSE IF type = "PROCESS_WATCHLIST_ANALYSIS" THEN processWatchlistAnalysisThrows(data)
  ELSE ~(RequiredFields(type) \subseteq data.fields)

\* The result of the routine of a supported type; only the portfolio summary
\* is computed, the other routines' results are named by their type.
ComputationResult(type, data) ==
  IF type = "CALCULATE_PORTFOLIO_VALUE"
  THEN [routine |-> type, summary |-> calculatePortfolioValue(data)]
  ELSE [routine |-> type, summary |-> NoSummary]

NoResult == [routine |-> "", summary |-> NoSummary]

\* Variant of AnalyticsReply: a request of an unknown type is ignored.
AnalyticsReply_DropsUnknown(request) ==
  IF request.type \notin SupportedTypes THEN <<>>
  ELSE IF ComputationThrows(request.type, request.data)
  THEN << [type |-> "ERROR", id |-> request.id, result |-> NoResult,
           error |-> "TypeError"] >>
  ELSE << [type |-> "SUCCESS", id |-> request.id,
           result |-> ComputationResult(request.type, request.data),
           error |-> ""] >>

\* The messages the listener posts for one request: the switch inside try,
\* postMessage SUCCESS after it, postMessage ERROR in the catch block.
AnalyticsReply(request) ==
  IF request.type \notin SupportedTypes
  THEN << [type |-> "ERROR", id |-> request.id, result |-> NoResult,
           error |-> "Unknown message type"] >>
  ELSE IF ComputationThrows(request.type, request.data)
  THEN << [type |-> "ERROR", id |-> request.id, result |-> NoResult,
           error |-> "TypeError"] >>
  ELSE << [type |-> "SUCCESS", id |-> request.id,
           result |-> ComputationResult(request.type, request.data),
           error |-> ""] >>

\* The page posts a request; it gives every request a fresh id.
PostRequest(type, data) ==
  /\ Len(sent) < MaxRequests
  /\ sent' = Append(sent, [type |-> type, id |-> Len(sent) + 1, data |-> data])
  /\ UNCHANGED << lifecycleVars, tierVars, activateVars, fetchVars, msgVars, syncVars,
                  nHandled, outbox >>

\* The message listener runs for the oldest request not handled yet.
AnalyticsMessage ==
  /\ nHandled < Len(sent)
  /\ nHandled' = nHandled + 1
  /\ outbox' = outbox \o AnalyticsReply(sent[nHandled + 1])
  /\ UNCHANGED << lifecycleVars, tierVars, activateVars, fetchVars, msgVars, syncVars,
                  sent >>

Next ==
  \/ Install
  \/ \E openOk \in BOOLEAN : InstallOpenDone(openOk)
  \/ \E failed \in 0..Len(STATIC_ASSETS), ver \in 1..MaxVer :
       InstallAddAllDone(failed, ver)
  \/ InstallSkipWaitingDone
  \/ ActivateStart
  \/ ActivateKeysDone
  \/ \E n \in TierNames : ActivateDeleteDone(n)
  \/ ActivateClaim
  \/ \E request \in Requests : FetchEvent(request)
  \/ \E i \in 1..MaxFetch : MatchDone(i)
  \/ \E i \in 1..MaxFetch, outcome \in NetOutcomes : NetworkReply(i, outcome)
  \/ \E i \in 1..MaxFetch, openOk \in BOOLEAN : OpenDone(i, openOk)
  \/ \E i \in 1..MaxFetch : PutLands(i)
  \/ \E type \in MessageTypes, urls \in CacheUrlLists : Message(type, urls)
  \/ \E m \in 1..MaxMsg, openOk \in BOOLEAN : MessageOpenDone(m, openOk)
  \/ \E m \in 1..MaxMsg, allOk \in BOOLEAN, ver \in 1..MaxVer :
       MessageAddAllDone(m, allOk, ver)

Spec == Init /\ [][Next]_vars

\* The replayer shares no state with the tiers; its runs are explored from an
\* activated worker (installed on an origin without earlier tiers) whose
\* durable queue holds up to MaxQueue deferred actions.
SyncInit ==
  /\ queue \in {QueueOf(n) : n \in 0..MaxQueue}
  /\ nSync = 0
  /\ runs = [r \in 1..MaxRuns |-> IdleRun]
  /\ phase = "activated"
  /\ installPc = "done"
  /\ installPromise = "resolved"
  /\ manifestFailed = FALSE
  /\ skipWaiting = TRUE
  /\ cacheNames = <<STATIC_CACHE>>
  /\ store = CacheAddAll([t \in TierNames |-> EmptyTier], STATIC_CACHE,
                         Range(STATIC_ASSETS), OriginResponse(200, 1))
  /\ latest = [u \in AllUrls |-> IF u \in Range(STATIC_ASSETS)
                                 THEN OriginResponse(200, 1) ELSE Undefined]
  /\ actPc = "done"
  /\ actStart = {STATIC_CACHE}
  /\ actDeleting = {}
  /\ claimed = TRUE
  /\ nFetch = 0
  /\ ev = [i \in 1..MaxFetch |-> IdleEvent]
  /\ nMsg = 0
  /\ msgs = [m \in 1..MaxMsg |-> IdleMessage]
  /\ sent = <<>>
  /\ nHandled = 0
  /\ outbox = <<>>

\* The steps of the loop body (ReplayReply, RemoveDone) are taken only by a
\* run whose list is not empty; getPendingActions returns an empty list, so
\* no run takes them and the events are the only steps.
SyncNext ==
  \E kind \in {"sync", "periodicsync"},
     tag \in {"background-sync", "content-sync", "other-tag"} :
    SyncEvent(kind, tag)

SyncSpec == SyncInit /\ [][SyncNext]_vars

\* The analytics worker is a worker of its own; it shares no state with the
\* service worker, which is left as it is after evaluation.
AnalyticsInit ==
  /\ Init
  /\ cacheNames = <<>>

AnalyticsNext ==
  \/ \E type \in RequestTypes : \E data \in DataOf(type) : PostRequest(type, data)
  \/ AnalyticsMessage

AnalyticsSpec == AnalyticsInit /\ [][AnalyticsNext]_vars



\* ===================================================================
\* Properties
\* ===================================================================

\* The statement as claimed: when the activate handler's guarded promise
\* settles, the tier names present are exactly those found at the start of the
\* activation that are in the registry.
C1_ExactlyStartingRegistryTiers ==
  [][(phase = "activating" /\ phase' = "activated")
       => NamesOf(cacheNames') = actStart \cap Registry]_vars

\* C1: when the activate handler's guarded promise settles, every name outside
\* the registry has been deleted and every registry name found at the start of
\* the activation is still present; the names present are exactly these,
\* except that the API tier is also present when a CACHE_URLS message handled
\* during the activation has opened it.
C1_ActivationLeavesRegistryTiers ==
  [][(phase = "activating" /\ phase' = "activated")
       => /\ NamesOf(cacheNames') \subseteq Registry
          /\ actStart \cap Registry \subseteq NamesOf(cacheNames')
          /\ NamesOf(cacheNames') \ actStart \subseteq {API_CACHE}
          /\ API_CACHE \in NamesOf(cacheNames') \ actStart =>
               \E m \in 1..MaxMsg :
                 /\ msgs[m].type = "CACHE_URLS"
                 /\ msgs[m].pc \in {"addAll", "done"}]_vars

\* An activation that found a legacy tier and the static tier has settled
\* before any fetch event: the legacy tier is gone, the static tier is
\* present, and so is the API tier a CACHE_URLS message opened meanwhile.
C1_Witness ==
  /\ phase = "activated"
  /\ actStart = {LegacyCache, STATIC_CACHE}
  /\ NamesOf(cacheNames) = {STATIC_CACHE, API_CACHE}
  /\ nFetch = 0
  /\ msgs[1].pc = "addAll"

\* C2: when the fetch of a manifest entry fails, the promise install gave to
\* waitUntil rejects and the worker does not become installed or active.
C2_InstallFailsWhenManifestFetchFails ==
  manifestFailed =>
    /\ installPromise = "rejected"
    /\ phase \notin {"installed", "activating", "activated"}

\* cacheFirst when its caches.match resolves: a hit is returned without a
\* fetch, a miss makes one fetch.
C3_Lookup(i) ==
  (ev[i].decision = CACHE_FIRST /\ ev[i].pc = "match" /\ ev'[i].pc # "match") =>
    LET url == ev[i].req.url
        snaps == {store[t][url] : t \in NamesOf(cacheNames)} \ {Undefined}
    IN  /\ snaps # {} =>
             /\ ev'[i].result \in snaps
             /\ ev'[i].netCalls = 0
             /\ ev'[i].pc = "done"
        /\ snaps = {} =>
             /\ ev'[i].netCalls = 1
             /\ ev'[i].pc = "net"

\* The put of cacheFirst writes the response under the request's identity.
C3_Landing(i) ==
  (ev[i].decision = CACHE_FIRST /\ ev[i].put = "pending" /\ ev'[i].put = "landed")
    => store'[STATIC_CACHE][ev[i].req.url] = ev[i].net

\* At most one fetch per request; a 2xx response is put, any other is not.
C3_State(i) ==
  ev[i].decision = CACHE_FIRST =>
    /\ ev[i].netCalls <= 1
    /\ ev[i].netCalls = 0 => (ev[i].net = Pending /\ ev[i].put = "none")
    /\ (ev[i].pc = "done" /\ IsOk(ev[i].net) /\ ev[i].open # "failed")
         => (ev[i].put \in {"pending", "landed"} /\ ev[i].result = ev[i].net)
    /\ (ev[i].pc = "done" /\ ~IsOk(ev[i].net)) => ev[i].put = "none"

\* C3: a request handled by cache-first is answered with a stored snapshot and
\* no network call when one exists; when none exists one network call is made,
\* and a 2xx response is written to the static tier under the request's
\* identity (the static tier having been opened).
C3_CacheFirst ==
  /\ [](\A i \in 1..MaxFetch : C3_State(i))
  /\ [][\A i \in 1..MaxFetch : C3_Lookup(i) /\ C3_Landing(i)]_vars

\* A cache-first miss whose 2xx response has been written to the static tier,
\* and a later cache-first request answered from a stored snapshot with no
\* network call.
C3_Witness ==
  \E i, j \in 1..MaxFetch :
    /\ ev[i].decision = CACHE_FIRST
    /\ ev[i].cached = Undefined
    /\ ev[i].put = "landed"
    /\ ev[j].decision = CACHE_FIRST
    /\ ev[j].cached # Undefined
    /\ ev[j].result = ev[j].cached
    /\ ev[j].netCalls = 0

\* networkFirst returns a 2xx response and starts its put.
C4_State(i) ==
  (ev[i].decision = NETWORK_FIRST /\ ev[i].pc = "done" /\ IsOk(ev[i].net)
     /\ ev[i].open # "failed")
    => (ev[i].put \in {"pending", "landed"} /\ ev[i].result = ev[i].net)

\* The put of networkFirst replaces the entry of the identity and no other.
C4_Landing(i) ==
  (ev[i].decision = NETWORK_FIRST /\ ev[i].put = "pending" /\ ev'[i].put = "landed")
    => store'[API_CACHE] = [store[API_CACHE] EXCEPT ![ev[i].req.url] = ev[i].net]

\* C4: when the network answers a network-first request with a 2xx response
\* (and the API tier opens), the response is returned and written, and once
\* the write completes the API tier's entry for the identity is exactly that
\* response, whatever was stored before.
C4_NetworkFirstOverwrites ==
  /\ [](\A i \in 1..MaxFetch : C4_State(i))
  /\ [][\A i \in 1..MaxFetch : C4_Landing(i)]_vars

\* Two network-first requests for one identity got different 2xx responses;
\* the second write has replaced the first snapshot.
C4_Witness ==
  \E i, j \in 1..MaxFetch :
    /\ ev[i].decision = NETWORK_FIRST
    /\ ev[j].decision = NETWORK_FIRST
    /\ ev[i].req.url = ev[j].req.url
    /\ ev[i].put = "landed"
    /\ ev[j].put = "landed"
    /\ ev[i].net # ev[j].net
    /\ store[API_CACHE][ev[j].req.url] = ev[j].net

\* The result of networkFirst whose fetch rejected, at the step where the
\* lookup of its catch block resolves.
C5_Fallback(i) ==
  (ev[i].decision = NETWORK_FIRST /\ ev[i].pc = "match" /\ ev'[i].pc = "done"
     /\ ev[i].net = NetworkError)
    => LET url == ev[i].req.url
           snaps == {store[t][url] : t \in NamesOf(cacheNames)} \ {Undefined}
           critical == \E k \in 1..Len(CRITICAL_APIS) : StartsWith(url, CRITICAL_APIS[k])
       IN  /\ snaps # {} => ev'[i].result \in snaps
           /\ (snaps = {} /\ critical) =>
                ev'[i].result =
                  [status |-> 503, contentType |-> "application/json",
                   body |-> "{\"success\":false,\"message\":\"Offline - Data not available\",\"offline\":true}"]
           /\ (snaps = {} /\ ~critical) =>
                ev'[i].result =
                  [status |-> 503, contentType |-> "text/plain",
                   body |-> "Offline - Resource not available"]

\* C5: when the fetch of a network-first request fails, the result is a stored
\* snapshot of the identity when one exists; otherwise the 503 JSON payload
\* {success:false, message:"Offline - Data not available", offline:true} when
\* the path starts with an entry of the critical-API list, and the generic 503
\* when it does not.
C5_NetworkFirstOffline == [][\A i \in 1..MaxFetch : C5_Fallback(i)]_vars

\* Offline, one network-first request was answered from a snapshot and another,
\* for a critical API path without snapshot, with the JSON payload.
C5_Witness ==
  \E i, j \in 1..MaxFetch :
    /\ ev[i].decision = NETWORK_FIRST
    /\ ev[i].net = NetworkError
    /\ ev[i].cached # Undefined
    /\ ev[i].result = ev[i].cached
    /\ ev[j].decision = NETWORK_FIRST
    /\ ev[j].net = NetworkError
    /\ ev[j].result = OfflineJson

\* The caller has the snapshot the lookup found, whatever the refresh does.
C6_State(i) ==
  (ev[i].decision = STALE_WHILE_REVALIDATE /\ ev[i].cached # Undefined)
    => ev[i].result = ev[i].cached

\* The snapshot the lookup finds is the dynamic tier's entry.
C6_Lookup(i) ==
  (ev[i].decision = STALE_WHILE_REVALIDATE /\ ev[i].pc = "match"
     /\ ev'[i].pc # "match")
    => ev'[i].cached = store[DYNAMIC_CACHE][ev[i].req.url]

\* Every change of the dynamic tier is the put of a refresh that returned 2xx.
C6_TierStep ==
  store'[DYNAMIC_CACHE] # store[DYNAMIC_CACHE] =>
    \E i \in 1..MaxFetch :
      /\ ev[i].decision = STALE_WHILE_REVALIDATE
      /\ IsOk(ev[i].net)
      /\ ev[i].put = "pending"
      /\ ev'[i].put = "landed"
      /\ store'[DYNAMIC_CACHE] =
           [store[DYNAMIC_CACHE] EXCEPT ![ev[i].req.url] = ev[i].net]

\* C6: a stale-while-revalidate request for which the dynamic tier holds a
\* snapshot is answered with that snapshot, while the refresh is pending and
\* after it succeeded or failed; the dynamic tier changes only by the write of
\* a refresh that returned 2xx.
C6_StaleWhileRevalidateServesCache ==
  /\ [](\A i \in 1..MaxFetch : C6_State(i))
  /\ [][C6_TierStep /\ \A i \in 1..MaxFetch : C6_Lookup(i)]_vars

\* A request was answered with the stored snapshot and its refresh has since
\* replaced that snapshot in the dynamic tier with a different 2xx response.
C6_Witness ==
  \E i \in 1..MaxFetch :
    /\ ev[i].decision = STALE_WHILE_REVALIDATE
    /\ ev[i].cached # Undefined
    /\ ev[i].result = ev[i].cached
    /\ ev[i].put = "landed"
    /\ ev[i].net # ev[i].cached
    /\ store[DYNAMIC_CACHE][ev[i].req.url] = ev[i].net

\* A well-formed response: an HTTP status, a body.
IsResponse(r) == r.status >= 100 /\ r.status <= 599

\* C7: whatever a strategy hands to respondWith settles to a well-formed
\* response, never to a rejection and never to undefined.
C7_AlwaysWellFormedResponse ==
  \A i \in 1..MaxFetch :
    (ev[i].respondWith = 1 /\ ev[i].result # Pending) => IsResponse(ev[i].result)

\* C8: for every GET request the fetch handler selects a strategy and calls
\* respondWith exactly once.
C8_EveryGetAnswered ==
  \A i \in 1..MaxFetch :
    (ev[i].pc # "idle" /\ ev[i].req.method = "GET")
      => (ev[i].respondWith = 1 /\ ev[i].decision \in Strategies)

\* The attempts of a run are a prefix of its list, in order, and the whole
\* list once the run is done; the run never rejects.
C9_State(r) ==
  LET run == runs[r]
  IN  run.pc \in {"replay", "remove", "done"} =>
        /\ Len(run.log) = (IF run.pc = "remove" THEN run.idx ELSE run.idx - 1)
        /\ Len(run.log) <= Len(run.pending)
        /\ \A k \in 1..Len(run.log) : run.log[k].id = run.pending[k].id
        /\ run.pc = "done" =>
             (Len(run.log) = Len(run.pending) /\ run.promise = "resolved")
        /\ run.promise # "rejected"

\* C9: a replay run attempts every action of the pending list it retrieved
\* exactly once and in retrieval order, whatever the outcome of the earlier
\* attempts, and its promise resolves.
C9_EveryActionAttemptedOnce ==
  \A r \in 1..MaxRuns : C9_State(r)

\* C10: an action of a batch has left the durable queue only if a replay of
\* it returned 2xx, and after a run every action whose replay returned 2xx
\* has left the queue.
C10_RemovedIffReplaySucceeded ==
  /\ \A r \in 1..MaxRuns : \A k \in 1..Len(runs[r].pending) :
       (\A q \in 1..Len(queue) : queue[q].id # runs[r].pending[k].id)
         => \E r2 \in 1..MaxRuns : \E j \in 1..Len(runs[r2].log) :
              /\ runs[r2].log[j].id = runs[r].pending[k].id
              /\ IsOk(runs[r2].log[j].outcome)
  /\ \A r \in 1..MaxRuns :
       runs[r].pc = "done" =>
         \A k \in 1..Len(runs[r].log) :
           IsOk(runs[r].log[k].outcome)
             => \A q \in 1..Len(queue) : queue[q].id # runs[r].log[k].id

\* C11: every request handled by the analytics worker has exactly one response,
\* carrying the request's id: SUCCESS with the result when the computation
\* returns, ERROR when it throws, ERROR when the type is none of the seven;
\* a request not handled yet has no response.
C11_ExactlyOneResponsePerRequest ==
  /\ nHandled <= Len(sent)
  /\ \A k \in 1..Len(sent) :
       LET request == sent[k]
           replies == {j \in 1..Len(outbox) : outbox[j].id = request.id}
       IN  IF k > nHandled THEN replies = {}
           ELSE /\ Cardinality(replies) = 1
                /\ \A j \in replies :
                     IF request.type \notin SupportedTypes
                     THEN outbox[j].type = "ERROR"
                     ELSE IF ComputationThrows(request.type, request.data)
                     THEN outbox[j].type = "ERROR"
                     ELSE /\ outbox[j].type = "SUCCESS"
                          /\ outbox[j].result =
                               ComputationResult(request.type, request.data)
  /\ \A j \in 1..Len(outbox) : \E k \in 1..nHandled : sent[k].id = outbox[j].id

\* A request of an unknown type and a request whose computation returned have
\* both been answered, the first with ERROR and the second with SUCCESS.
C11_Witness ==
  /\ nHandled = 2
  /\ sent[1].type \notin SupportedTypes
  /\ outbox[1] = [type |-> "ERROR", id |-> 1, result |-> NoResult,
                  error |-> "Unknown message type"]
  /\ sent[2].type = "PROCESS_CHART_DATA"
  /\ outbox[2].type = "SUCCESS"
  /\ outbox[2].id = 2

\* C12: a CALCULATE_PORTFOLIO_VALUE request whose holdings are the one holding
\* {symbol X, quantity 10, averagePrice 5, currentPrice 7}, with no price map
\* entry for X, gets SUCCESS with totalValue 70, totalCost 50, totalGainLoss 20
\* and totalGainLossPercent 40; and every SUCCESS summary has totalValue the
\* sum of price*quantity, totalCost the sum of averagePrice*quantity and
\* totalGainLoss their difference.
C12_PortfolioExample ==
  \A k \in 1..nHandled :
    LET data == sent[k].data
        noEntryForX == \/ "currentPrices" \notin data.fields
                       \/ data.currentPrices["X"] = Absent
    IN  sent[k].type = "CALCULATE_PORTFOLIO_VALUE" =>
          /\ ("holdings" \in data.fields /\ data.holdings = <<HoldingX>> /\ noEntryForX)
               => /\ outbox[k].type = "SUCCESS"
                  /\ outbox[k].result.summary.totalValue = 70
                  /\ outbox[k].result.summary.totalCost = 50
                  /\ outbox[k].result.summary.totalGainLoss = 20
                  /\ outbox[k].result.summary.totalGainLossPercent = 40
          /\ outbox[k].type = "SUCCESS"
               => /\ outbox[k].result.summary.totalValue =
                       SumValue(data.holdings, data.currentPrices)
                  /\ outbox[k].result.summary.totalCost = SumCost(data.holdings)
                  /\ outbox[k].result.summary.totalGainLoss =
                       outbox[k].result.summary.totalValue
                         - outbox[k].result.summary.totalCost

\* The same statement for requests that carry a price map (possibly empty).
C12_WithPriceMap ==
  \A k \in 1..nHandled :
    LET data == sent[k].data
    IN  (/\ sent[k].type = "CALCULATE_PORTFOLIO_VALUE"
         /\ {"holdings", "currentPrices"} \subseteq data.fields
         /\ data.holdings = <<HoldingX>>
         /\ data.currentPrices["X"] = Absent)
          => /\ outbox[k].type = "SUCCESS"
             /\ outbox[k].result.summary.totalValue = 70
             /\ outbox[k].result.summary.totalCost = 50
             /\ outbox[k].result.summary.totalGainLoss = 20
             /\ outbox[k].result.summary.totalGainLossPercent = 40

\* A non-GET request's event carries no respondWith, no fetch, no tier read and
\* no write started.
C13_State(i) ==
  (ev[i].pc # "idle" /\ ev[i].req.method # "GET") =>
    /\ ev[i].pc = "done"
    /\ ev[i].decision = "passthrough"
    /\ ev[i].respondWith = 0
    /\ ev[i].netCalls = 0
    /\ ev[i].net = Pending
    /\ ev[i].open = "none"
    /\ ev[i].cached = Undefined
    /\ ev[i].put = "none"

\* The dispatch of a non-GET request leaves every tier as it is.
C13_Dispatch(i) ==
  (ev[i].pc = "idle" /\ ev'[i].pc # "idle" /\ ev'[i].req.method # "GET")
    => (store' = store /\ cacheNames' = cacheNames)

\* C13: for a request whose method is not GET the fetch handler does not call
\* respondWith, makes no network call, and reads and writes no tier: every
\* tier is unchanged by the event.
C13_NonGetPassesThrough ==
  /\ [](\A i \in 1..MaxFetch : C13_State(i))
  /\ [][\A i \in 1..MaxFetch : C13_Dispatch(i)]_vars

\* A POST to an API path has been dispatched and passed through, after a GET
\* of an API path was handled by network-first.
C13_Witness ==
  \E i, j \in 1..MaxFetch :
    /\ ev[i].req.method = "POST"
    /\ isAPIRequest(ev[i].req)
    /\ ev[i].pc = "done"
    /\ ev[i].respondWith = 0
    /\ ev[j].req.method = "GET"
    /\ ev[j].decision = NETWORK_FIRST
    /\ ev[j].put = "landed"

\* The strategy the classification order gives a GET request: static-asset
\* extension, then the /api/ prefix, then text/html in the accept header, then
\* network-first.
C14_Expected(request) ==
  LET path == request.url
      static == /\ Len(path) >= 2
                /\ path[Len(path) - 1] = "."
                /\ path[Len(path)] \in StaticExtensions
      api == Len(path) >= 3 /\ SubSeq(path, 1, 3) = <<"/", "api", "/">>
      html == \E k \in 1..Len(request.accept) : request.accept[k] = "text/html"
  IN  IF static THEN "cache-first"
      ELSE IF api THEN "network-first"
      ELSE IF html THEN "stale-while-revalidate"
      ELSE "network-first"

\* C14: for every GET request the strategy is the one of the first matching
\* rule, in the order static-asset extension, /api/ prefix, text/html accept
\* header, and network-first otherwise.
C14_FirstMatchWins ==
  \A i \in 1..MaxFetch :
    (ev[i].pc # "idle" /\ ev[i].req.method = "GET")
      => ev[i].decision = C14_Expected(ev[i].req)

\* The same order for the GET requests whose classification does not reach the
\* accept-header rule without an accept header.
C14_OrderWhenClassified ==
  \A i \in 1..MaxFetch :
    (ev[i].pc # "idle" /\ ev[i].req.method = "GET" /\ ev[i].decision # "threw")
      => ev[i].decision = C14_Expected(ev[i].req)

\* A message whose guarded promise resolved: the API tier is present and holds
\* a 2xx snapshot of every listed url.
C15_State(m) ==
  (msgs[m].type = "CACHE_URLS" /\ msgs[m].promise = "resolved") =>
    /\ API_CACHE \in NamesOf(cacheNames)
    /\ \A k \in 1..Len(msgs[m].urls) :
         /\ store[API_CACHE][msgs[m].urls[k]] # Undefined
         /\ IsOk(store[API_CACHE][msgs[m].urls[k]])

\* One step of the handling of message m: the static and the dynamic tier are
\* unchanged, the API tier changes at the listed urls only, and a message of
\* another type changes no tier.
C15_Step(m) ==
  msgs'[m] # msgs[m] =>
    /\ store'[STATIC_CACHE] = store[STATIC_CACHE]
    /\ store'[DYNAMIC_CACHE] = store[DYNAMIC_CACHE]
    /\ NamesOf(cacheNames') \subseteq NamesOf(cacheNames) \cup {API_CACHE}
    /\ \A u \in AllUrls \ Range(msgs'[m].urls) :
         store'[API_CACHE][u] = store[API_CACHE][u]
    /\ msgs'[m].type # "CACHE_URLS" =>
         (msgs'[m].pc = "done" /\ store' = store /\ cacheNames' = cacheNames)

\* C15: handling {type: CACHE_URLS, urls}, when the API tier opens and every
\* listed URL is fetched successfully, leaves the API tier with a snapshot of
\* each listed URL once the guarded promise has settled, and the static and
\* dynamic tiers unchanged; a SKIP_WAITING message and a message of any other
\* type change no tier.
C15_CacheUrlsFillsApiTier ==
  /\ [](\A m \in 1..MaxMsg : C15_State(m))
  /\ [][\A m \in 1..MaxMsg : C15_Step(m)]_vars

\* A CACHE_URLS message has been handled before any fetch event: the API tier
\* exists and holds a snapshot of both listed URLs, the other tiers hold none
\* of them.
C15_Witness ==
  /\ nMsg = 1
  /\ msgs[1].promise = "resolved"
  /\ nFetch = 0
  /\ API_CACHE \in NamesOf(cacheNames)
  /\ \A k \in 1..2 : IsOk(store[API_CACHE][<<PathMarketStatus, PathPortfolio>>[k]])
  /\ store[DYNAMIC_CACHE] = EmptyTier
  /\ store[STATIC_CACHE][PathPortfolio] = Undefined

\* C16: a cache-first request with no stored snapshot whose network fetch
\* fails is answered with the synthesized 503 response; the network error is
\* not propagated as a rejection.
C16_CacheFirstTotalFailure ==
  \A i \in 1..MaxFetch :
    (/\ ev[i].decision = "cache-first"
     /\ ev[i].cached = Undefined
     /\ ev[i].net = NetworkError)
      => /\ ev[i].respondWith = 1
         /\ ev[i].result # Rejected
         /\ ev[i].result.status = 503
         /\ ev[i].result.body = "Offline - Resource not available"
         /\ ev[i].put = "none"

\* A stylesheet that no tier holds was requested while offline and answered
\* with the 503 response.
C16_Witness ==
  \E i \in 1..MaxFetch :
    /\ ev[i].decision = CACHE_FIRST
    /\ ev[i].netCalls = 1
    /\ ev[i].net = NetworkError
    /\ ev[i].cached = Undefined
    /\ ev[i].result = OfflineText

\* C17: clients.claim() has been called only when every deletion of the
\* activation has completed and no non-registry tier is present; while a
\* deletion is in flight it has not been called; it is called as soon as the
\* names are listed and no deletion is left in flight, and it has been called
\* when the guarded promise settles.
C17_ClaimAfterDeletions ==
  /\ claimed => /\ actDeleting = {}
                /\ NamesOf(cacheNames) \subseteq Registry
                /\ phase \in {"activating", "activated"}
  /\ actDeleting # {} => ~claimed
  /\ (phase = "activating" /\ actPc # "keys" /\ actDeleting = {}) => claimed
  /\ phase = "activated" => claimed

\* An activation that found a legacy tier has deleted it and then claimed.
C17_Witness ==
  /\ claimed
  /\ LegacyCache \in actStart
  /\ LegacyCache \notin NamesOf(cacheNames)
  /\ DYNAMIC_CACHE \in NamesOf(cacheNames)

\* C18: when the promise an event handed to respondWith has settled, no tier
\* write started by that event is still in flight.
C18_WritesInsideGuardedCompletion ==
  \A i \in 1..MaxFetch :
    (ev[i].respondWith = 1 /\ ev[i].result # Pending) => ev[i].put # "pending"

\* The tier the claim names for a strategy.
C19_Tier(strategy) ==
  CASE strategy = "cache-first" -> "static-v1"
    [] strategy = "network-first" -> "api-v1"
    [] strategy = "stale-while-revalidate" -> "dynamic-v1"
    [] OTHER -> "no tier"

\* Only the handling of a GET request by a strategy starts a write.
C19_State(i) ==
  ev[i].put # "none" =>
    (ev[i].req.method = "GET" /\ ev[i].decision \in Strategies)

\* One step of the handling of event i: the write lands once, in the entry of
\* the request's identity in the strategy's tier, and nothing else is written;
\* the dispatch (classification and start of the strategy) writes nothing and
\* creates at most the strategy's tier.
C19_Event(i) ==
  /\ (ev[i].put # "landed" /\ ev'[i].put = "landed") =>
       /\ ev[i].put = "pending"
       /\ \A t \in TierNames, u \in AllUrls :
            (t # C19_Tier(ev[i].decision) \/ u # ev[i].req.url)
              => store'[t][u] = store[t][u]
       /\ cacheNames' = cacheNames
  /\ ev[i].put = "landed" => ev'[i] = ev[i]
  /\ (ev'[i] # ev[i] /\ ev'[i].put # "landed") =>
       /\ store' = store
       /\ NamesOf(cacheNames') \subseteq
            NamesOf(cacheNames) \cup {C19_Tier(ev'[i].decision)}
  /\ (ev[i].pc = "idle" /\ ev'[i].pc # "idle") =>
       UNCHANGED << lifecycleVars, tierVars, activateVars, msgVars, syncVars >>

\* C19: handling one GET request writes at most one entry, under the request's
\* identity and in the tier of its strategy (static for cache-first, API for
\* network-first, dynamic for stale-while-revalidate); every other tier and
\* entry is unchanged, and choosing the strategy changes no state.
C19_OneTierOneEntry ==
  /\ [](\A i \in 1..MaxFetch : C19_State(i))
  /\ [][\A i \in 1..MaxFetch : C19_Event(i)]_vars

\* A cache-first and a stale-while-revalidate request have both written their
\* response, each under its identity in its own tier; the API tier holds
\* nothing.
C19_Witness ==
  \E i, j \in 1..MaxFetch :
    /\ ev[i].decision = CACHE_FIRST
    /\ ev[i].put = "landed"
    /\ store[STATIC_CACHE][ev[i].req.url] = ev[i].net
    /\ store[DYNAMIC_CACHE][ev[i].req.url] = Undefined
    /\ ev[j].decision = STALE_WHILE_REVALIDATE
    /\ ev[j].put = "landed"
    /\ store[DYNAMIC_CACHE][ev[j].req.url] = ev[j].net
    /\ store[API_CACHE] = EmptyTier

\* C20: every entry of every tier was stored under a GET identity: by the
\* install manifest (addAll of URLs), by a CACHE_URLS message (addAll of URLs)
\* or by the write of a fetch event whose request is a GET; no write is ever
\* started for a non-GET request.
C20_OnlyGetIdentitiesStored ==
  /\ \A t \in TierNames, u \in AllUrls :
       store[t][u] # Undefined =>
         \/ /\ t = STATIC_CACHE
            /\ installPc \in {"skipWaiting", "done"}
            /\ \E k \in 1..Len(STATIC_ASSETS) : STATIC_ASSETS[k] = u
         \/ /\ t = API_CACHE
            /\ nMsg > 0
            /\ \E urls \in CacheUrlLists : u \in Range(urls)
         \/ \E i \in 1..MaxFetch :
              /\ ev[i].req.method = "GET"
              /\ ev[i].req.url = u
              /\ ev[i].put = "landed"
  /\ \A i \in 1..MaxFetch : ev[i].req.method # "GET" => ev[i].put = "none"

\* The tiers hold entries written by the install, by a CACHE_URLS message and
\* by a GET event, a POST has been dispatched, and no tier holds an entry for
\* the POST's URL.
C20_Witness ==
  /\ store[STATIC_CACHE][PathBundle] # Undefined
  /\ nMsg = 1
  /\ store[API_CACHE][PathPortfolio] # Undefined
  /\ \E i, j \in 1..MaxFetch :
       /\ ev[i].req.method = "POST"
       /\ ev[i].pc = "done"
       /\ ev[j].put = "landed"
  /\ \A t \in TierNames : store[t][PathOrders] = Undefined

\* What the caller of stale-while-revalidate has when the dynamic tier held no
\* snapshot: nothing while the fetch is pending, the network response once it
\* arrived, undefined once the fetch failed (and then no write is started).
C21_State(i) ==
  (/\ ev[i].decision = "stale-while-revalidate"
   /\ ev[i].pc \in {"net", "done"}
   /\ ev[i].open = "ok"
   /\ ev[i].cached = Undefined)
    => /\ ev[i].net = Pending => ev[i].result = Pending
       /\ (ev[i].net # Pending /\ ev[i].net # NetworkError)
            => ev[i].result = ev[i].net
       /\ ev[i].net = NetworkError =>
            /\ ev[i].result = [status |-> 0, contentType |-> "", body |-> "undefined"]
            /\ ev[i].result # Rejected
            /\ ev[i].put = "none"

\* The step at which the fetch of such a request fails changes no tier.
C21_FailureStep(i) ==
  (/\ ev[i].decision = "stale-while-revalidate"
   /\ ev[i].cached = Undefined
   /\ ev[i].net = Pending
   /\ ev'[i].net = NetworkError)
    => (store' = store /\ cacheNames' = cacheNames)

\* C21: a stale-while-revalidate request with no snapshot in the dynamic tier
\* gets the result of the network fetch once it completes; when the fetch
\* fails the caller's promise resolves to undefined, it does not reject, and
\* the dynamic tier is unchanged.
C21_StaleWhileRevalidateNoSnapshot ==
  /\ [](\A i \in 1..MaxFetch : C21_State(i))
  /\ [][\A i \in 1..MaxFetch : C21_FailureStep(i)]_vars

\* Two requests for the shell document found no snapshot: one was answered
\* with the network response, the fetch of the other failed and its caller
\* has undefined; the dynamic tier holds what the first one wrote.
C21_Witness ==
  \E i, j \in 1..MaxFetch :
    /\ ev[i].decision = STALE_WHILE_REVALIDATE
    /\ ev[i].cached = Undefined
    /\ IsOk(ev[i].net)
    /\ ev[i].result = ev[i].net
    /\ ev[j].decision = STALE_WHILE_REVALIDATE
    /\ ev[j].open = "ok"
    /\ ev[j].cached = Undefined
    /\ ev[j].net = NetworkError
    /\ ev[j].result = Undefined

\* The replays of the action with identifier k that returned 2xx, over all runs.
C22_SuccessfulReplays(k) ==
  {<<r, j>> \in (1..MaxRuns) \X (1..MaxQueue) :
     /\ j <= Len(runs[r].log)
     /\ runs[r].log[j].id = k
     /\ IsOk(runs[r].log[j].outcome)}

\* C22: under any interleaving of sync events tagged background-sync and
\* periodicsync events tagged content-sync, each deferred action is replayed
\* successfully at most once; overlapping runs never both send one action.
C22_ReplayedAtMostOnce ==
  \A k \in 1..MaxQueue : Cardinality(C22_SuccessfulReplays(k)) <= 1

\* A write is started only for a 2xx response; a non-2xx response starts none
\* and is what the caller gets wherever the caller waits for the network
\* (under stale-while-revalidate the caller may already have the snapshot).
C23_State(i) ==
  /\ ev[i].put # "none" => (ev[i].net.status >= 200 /\ ev[i].net.status <= 299)
  /\ (/\ ev[i].decision \in {"cache-first", "network-first", "stale-while-revalidate"}
      /\ ev[i].net.status >= 100
      /\ ~(ev[i].net.status >= 200 /\ ev[i].net.status <= 299))
       => /\ ev[i].put = "none"
          /\ ev[i].result =
               (IF ev[i].decision = "stale-while-revalidate" /\ ev[i].cached # Undefined
                THEN ev[i].cached ELSE ev[i].net)

\* The step at which a non-2xx response arrives changes no tier.
C23_Step(i) ==
  (/\ ev[i].net = Pending
   /\ ev'[i].net.status >= 100
   /\ ~(ev'[i].net.status >= 200 /\ ev'[i].net.status <= 299))
    => (store' = store /\ cacheNames' = cacheNames)

\* C23: every snapshot a tier holds has a 2xx status; a network response with
\* another status is handed on as it is and leaves every tier unchanged, under
\* cache-first, network-first and stale-while-revalidate.
C23_OnlySuccessfulSnapshots ==
  /\ [](/\ \A t \in TierNames, u \in AllUrls :
            store[t][u] # Undefined =>
              (store[t][u].status >= 200 /\ store[t][u].status <= 299)
        /\ \A i \in 1..MaxFetch : C23_State(i))
  /\ [][\A i \in 1..MaxFetch : C23_Step(i)]_vars

\* A network-first request wrote its 200 response; a later request for the
\* same identity got a 404, which was returned, and the tier still holds the
\* first response.
C23_Witness ==
  \E i, j \in 1..MaxFetch :
    /\ ev[i].decision = NETWORK_FIRST
    /\ ev[i].put = "landed"
    /\ ev[j].decision = NETWORK_FIRST
    /\ ev[j].req.url = ev[i].req.url
    /\ ev[j].net = OriginResponse(404, 1)
    /\ ev[j].result = OriginResponse(404, 1)
    /\ store[API_CACHE][ev[i].req.url] = ev[i].net

\* The step at which the lookup of a network-first request whose fetch failed
\* resolves, while some tier holds a snapshot of the identity: the result is
\* the snapshot most recently stored for the identity.
C24_Fallback(i) ==
  (/\ ev[i].decision = "network-first"
   /\ ev[i].pc = "match"
   /\ ev'[i].pc = "done"
   /\ ev[i].net = NetworkError
   /\ latest[ev[i].req.url] # Undefined)
    => ev'[i].result = latest[ev[i].req.url]

\* C24: when network-first falls back to the cache after a network failure,
\* the snapshot it returns is the one most recently stored for the identity
\* by a successful network response, also when another tier holds an older
\* snapshot of the identity.
C24_FallbackReturnsMostRecent ==
  [][\A i \in 1..MaxFetch : C24_Fallback(i)]_vars

\* The same for the identities of which only the API tier holds a snapshot.
C24_FallbackWhenOnlyApiTierHolds ==
  [][\A i \in 1..MaxFetch :
       (/\ ev[i].decision = "network-first"
        /\ \A t \in TierNames \ {API_CACHE} : store[t][ev[i].req.url] = Undefined)
         => C24_Fallback(i)]_vars

====
